---- MODULE Spec2Model ----
(***************************************************************************)
(* Model of script/make_etherscan_input.py: the generator of Etherscan     *)
(* Standard-JSON inputs from `forge inspect <fq> metadata`.                *)
(*                                                                         *)
(* Texts are sequences of lexical tokens, each token standing for a fixed  *)
(* piece of text; every operator below works on the tokens the way the     *)
(* Python code works on the characters they stand for.                     *)
(***************************************************************************)
EXTENDS Naturals, Sequences, FiniteSets

VARIABLES
    p_out, p_raw, p_res, p_pc,            \* _run_forge_inspect / _parse_metadata
    v_meta, v_res, v_pc,                  \* _extract_solc_version
    b_meta, b_fs, b_res, b_pc,            \* _build_standard_input
    s_src, s_names, s_pc,                 \* _parse_contract_names_from_file
    \* main / _generate_all / _generate_one: the position in main, sys.argv, the
    \* project tree, the target list and the loop index, the output files on disk;
    \* g_log (identifiers in the order their generation ran), g_fail (the
    \* exception that ended the program) and g_prev (the disk before the last
    \* call of _generate_one) record the history of the run
    g_pc, g_argv, g_tree, g_targets, g_idx, g_disk, g_log, g_fail, g_prev

pvars == <<p_out, p_raw, p_res, p_pc>>
vvars == <<v_meta, v_res, v_pc>>
bvars == <<b_meta, b_fs, b_res, b_pc>>
svars == <<s_src, s_names, s_pc>>
gvars == <<g_pc, g_argv, g_tree, g_targets, g_idx, g_disk, g_log, g_fail, g_prev>>
vars  == <<pvars, vvars, bvars, svars, gvars>>

(***************************************************************************)
(* Bounds of the explored input spaces.                                    *)
(***************************************************************************)
MaxRawLen == 4        \* tokens of acquirer output
MaxSolLen == 5        \* tokens of a scanned Solidity file
MaxSources == 2       \* keys of metadata.sources
MaxFacetFiles == 2    \* files under src/facets in one tree

(***************************************************************************)
(* Generic sequence helpers.                                               *)
(***************************************************************************)
SeqsUpTo(S, n) == UNION {[1..k -> S] : k \in 0..n}

\* str.strip(): whitespace removed at both ends
RECURSIVE LStrip(_)
LStrip(s) == IF s # <<>> /\ Head(s) = "sp" THEN LStrip(Tail(s)) ELSE s

RECURSIVE RStrip(_)
RStrip(s) ==
    IF s # <<>> /\ s[Len(s)] = "sp" THEN RStrip(SubSeq(s, 1, Len(s) - 1)) ELSE s

Strip(s) == RStrip(LStrip(s))

(***************************************************************************)
(* JSON texts.  Tokens and the text each stands for:                       *)
(*   lb   {                 rb   }                sp   one space           *)
(*   q    "                 d    the digit 1                               *)
(*   lst  [1]  (a list, no quote in it)                                    *)
(*   obj  {"k": ...}  a complete object with members (quotes in it)        *)
(*   eobj the text of obj with every quote backslash-escaped               *)
(***************************************************************************)
JsonTokens == {"lb", "rb", "sp", "q", "d", "lst", "obj", "eobj"}

JErr == [ok |-> FALSE, t |-> "error", v |-> <<>>]
JVal(kind, payload) == [ok |-> TRUE, t |-> kind, v |-> payload]

RECURSIVE SkipWs(_, _)
SkipWs(s, i) == IF i <= Len(s) /\ s[i] = "sp" THEN SkipWs(s, i + 1) ELSE i

RECURSIVE SkipDigits(_, _)
SkipDigits(s, i) == IF i <= Len(s) /\ s[i] = "d" THEN SkipDigits(s, i + 1) ELSE i

\* The body of a string literal from position i: [ok, v (decoded), next].
\* An unescaped quote closes the literal; `obj` has an unescaped quote as its
\* second character, so the literal closes inside it and text is left over.
RECURSIVE ScanString(_, _, _)
ScanString(s, i, acc) ==
    IF i > Len(s) THEN [ok |-> FALSE, v |-> <<>>, next |-> i]
    ELSE IF s[i] = "q" THEN [ok |-> TRUE, v |-> acc, next |-> i + 1]
    ELSE IF s[i] = "obj" THEN [ok |-> FALSE, v |-> <<>>, next |-> i]
    ELSE IF s[i] = "eobj" THEN ScanString(s, i + 1, Append(acc, "obj"))
    ELSE ScanString(s, i + 1, Append(acc, s[i]))

\* One JSON value starting at position i: [ok, t, v, next].
ScanValue(s, i) ==
    LET bad == [ok |-> FALSE, t |-> "error", v |-> <<>>, next |-> i] IN
    IF i > Len(s) THEN bad
    ELSE IF s[i] = "obj" THEN [ok |-> TRUE, t |-> "dict", v |-> <<"obj">>, next |-> i + 1]
    ELSE IF s[i] = "lb" THEN
        LET j == SkipWs(s, i + 1) IN
        IF j <= Len(s) /\ s[j] = "rb"
        THEN [ok |-> TRUE, t |-> "dict", v |-> <<>>, next |-> j + 1]
        ELSE bad
    ELSE IF s[i] = "lst" THEN [ok |-> TRUE, t |-> "list", v |-> <<"lst">>, next |-> i + 1]
    ELSE IF s[i] = "d" THEN
        LET j == SkipDigits(s, i) IN
        [ok |-> TRUE, t |-> "int", v |-> SubSeq(s, i, j - 1), next |-> j]
    ELSE IF s[i] = "q" THEN
        LET r == ScanString(s, i + 1, <<>>) IN
        IF r.ok THEN [ok |-> TRUE, t |-> "str", v |-> r.v, next |-> r.next] ELSE bad
    ELSE bad

\* json.loads(s) for a str s: one value, whitespace around it, nothing else
json_loads(s) ==
    LET r == ScanValue(s, SkipWs(s, 1)) IN
    IF ~r.ok THEN JErr
    ELSE IF SkipWs(s, r.next) <= Len(s) THEN JErr
    ELSE JVal(r.t, r.v)

\* raw.startswith("{")
StartsWithBrace(s) == s # <<>> /\ Head(s) \in {"lb", "obj", "eobj"}

\* _run_forge_inspect: the subprocess output, decoded and stripped
_run_forge_inspect(output) == Strip(output)

\* _parse_metadata.  json.loads of a value that is not a str raises TypeError.
_parse_metadata(raw) ==
    IF StartsWithBrace(raw) THEN json_loads(raw)
    ELSE LET inner == json_loads(raw) IN
         IF ~inner.ok THEN JErr
         ELSE IF inner.t # "str" THEN JErr
         ELSE json_loads(inner.v)

NoRes == [ok |-> FALSE, t |-> "none", v |-> <<>>]

ParseIdle == p_out = <<>> /\ p_raw = <<>> /\ p_res = NoRes /\ p_pc = "idle"

ParseInit == p_out \in SeqsUpTo(JsonTokens, MaxRawLen) /\ p_raw = <<>>
             /\ p_res = NoRes /\ p_pc = "acquire"

Acquire ==
    /\ p_pc = "acquire"
    /\ p_raw' = _run_forge_inspect(p_out)
    /\ p_pc' = "parse"
    /\ UNCHANGED <<p_out, p_res>>

Parse ==
    /\ p_pc = "parse"
    /\ p_res' = _parse_metadata(p_raw)
    /\ p_pc' = "done"
    /\ UNCHANGED <<p_out, p_raw>>

(***************************************************************************)
(* JSON values as Python sees them after json.loads, for the fields the    *)
(* version extractor reads: [t, v] with t the Python type.                 *)
(***************************************************************************)
Absent == [t |-> "absent", v |-> ""]
PNone == [t |-> "null", v |-> ""]
PStr(x) == [t |-> "str", v |-> x]

VersionStrings == {"", "0.8.0", "0.8.19", "0.8.20"}

\* values a top-level key can hold
FieldValues ==
    {Absent, PNone, [t |-> "int", v |-> "1"], [t |-> "list", v |-> "[1]"]}
        \cup {PStr(x) : x \in VersionStrings}

\* values of the key `compiler` other than a non-empty object
CompilerScalars ==
    {Absent, PNone, PStr(""), PStr("0.8.19"),
     [t |-> "int", v |-> "0"], [t |-> "int", v |-> "1"],
     [t |-> "bool", v |-> "false"], [t |-> "bool", v |-> "true"],
     [t |-> "list", v |-> "[]"], [t |-> "list", v |-> "[1]"],
     [t |-> "dict", v |-> "{}"]}

NonEmptyDict == [t |-> "dict", v |-> "{..}"]

\* bool(x)
Truthy(x) ==
    CASE x.t \in {"absent", "null"} -> FALSE
      [] x.t = "str" -> x.v # ""
      [] x.t = "int" -> x.v # "0"
      [] x.t = "bool" -> x.v = "true"
      [] x.t = "list" -> x.v # "[]"
      [] x.t = "dict" -> x.v # "{}"

\* isinstance(x, str) and x
NonEmptyStr(x) == x.t = "str" /\ x.v # ""

\* A metadata document as the version extractor reads it: `cversion` is the
\* value of compiler["version"] when compiler is a non-empty object.
VersionMetas ==
    {[compiler |-> c, cversion |-> Absent, solcVersion |-> a, solc |-> b, version |-> d] :
        c \in CompilerScalars, a \in FieldValues, b \in FieldValues, d \in FieldValues}
    \cup
    {[compiler |-> NonEmptyDict, cversion |-> cv, solcVersion |-> a, solc |-> b, version |-> d] :
        cv \in FieldValues, a \in FieldValues, b \in FieldValues, d \in FieldValues}

VOk(x) == [ok |-> TRUE, v |-> x]
VRaise == [ok |-> FALSE, v |-> "AttributeError"]

\* the loop over ("solcVersion", "solc", "version")
FallbackVersion(meta) ==
    IF NonEmptyStr(meta.solcVersion) THEN meta.solcVersion.v
    ELSE IF NonEmptyStr(meta.solc) THEN meta.solc.v
    ELSE IF NonEmptyStr(meta.version) THEN meta.version.v
    ELSE "<unknown>"

\* _extract_solc_version.  `meta.get("compiler") or {}` keeps every truthy
\* value; `.get` exists on dict only.
_extract_solc_version(meta) ==
    LET compiler == IF Truthy(meta.compiler) THEN meta.compiler
                    ELSE [t |-> "dict", v |-> "{}"] IN
    IF compiler.t # "dict" THEN VRaise
    ELSE LET version == IF compiler.v = "{}" THEN PNone ELSE meta.cversion IN
         IF NonEmptyStr(version) THEN VOk(version.v)
         ELSE VOk(FallbackVersion(meta))

VNone == [ok |-> FALSE, v |-> "none"]

VersionIdle == v_meta = Absent /\ v_res = VNone /\ v_pc = "idle"

VersionInit == v_meta \in VersionMetas /\ v_res = VNone /\ v_pc = "call"

ExtractVersion ==
    /\ v_pc = "call"
    /\ v_res' = _extract_solc_version(v_meta)
    /\ v_pc' = "done"
    /\ UNCHANGED v_meta

(***************************************************************************)
(* Solidity source text.  Tokens and the text each stands for:             *)
(*   kw  contract     itf  interface     id  X      (words)                *)
(*   sp  one space    nl   a newline     sl  /      st  *                  *)
(* Input files are written with two more tokens that abbreviate a          *)
(* declaration: cx = `contract X` and ix = `interface X`.                  *)
(***************************************************************************)
SolInputTokens == {"cx", "ix", "id", "sp", "nl", "sl", "st"}
WordTokens == {"kw", "itf", "id"}

RECURSIVE Expand(_)
Expand(s) ==
    IF s = <<>> THEN <<>>
    ELSE (CASE Head(s) = "cx" -> <<"kw", "sp", "id">>
            [] Head(s) = "ix" -> <<"itf", "sp", "id">>
            [] OTHER -> <<Head(s)>>) \o Expand(Tail(s))

\* smallest j >= i with s[j] s[j+1] = `*/`, or 0
RECURSIVE FindClose(_, _)
FindClose(s, i) ==
    IF i + 1 > Len(s) THEN 0
    ELSE IF s[i] = "st" /\ s[i + 1] = "sl" THEN i
    ELSE FindClose(s, i + 1)

\* re.sub(r"/\*.*?\*/", "", src, flags=re.DOTALL): leftmost, shortest,
\* non-overlapping matches removed
RECURSIVE StripBlockComments(_, _)
StripBlockComments(s, i) ==
    IF i > Len(s) THEN <<>>
    ELSE IF i + 1 <= Len(s) /\ s[i] = "sl" /\ s[i + 1] = "st" /\ FindClose(s, i + 2) # 0
         THEN StripBlockComments(s, FindClose(s, i + 2) + 2)
         ELSE <<s[i]>> \o StripBlockComments(s, i + 1)

\* str.splitlines(): no empty last line after a final newline
RECURSIVE SplitLines(_, _)
SplitLines(s, cur) ==
    IF s = <<>> THEN (IF cur = <<>> THEN <<>> ELSE <<cur>>)
    ELSE IF Head(s) = "nl" THEN <<cur>> \o SplitLines(Tail(s), <<>>)
    ELSE SplitLines(Tail(s), Append(cur, Head(s)))

\* line.split("//", 1)[0]
RECURSIVE CutLineComment(_)
CutLineComment(line) ==
    IF line = <<>> THEN <<>>
    ELSE IF Len(line) >= 2 /\ line[1] = "sl" /\ line[2] = "sl" THEN <<>>
    ELSE <<Head(line)>> \o CutLineComment(Tail(line))

RECURSIVE SkipSpaces(_, _)
SkipSpaces(s, i) == IF i <= Len(s) /\ s[i] = "sp" THEN SkipSpaces(s, i + 1) ELSE i

RECURSIVE SkipWords(_, _)
SkipWords(s, i) == IF i <= Len(s) /\ s[i] \in WordTokens THEN SkipWords(s, i + 1) ELSE i

\* re.match(r"^\s*contract\s+([A-Za-z_]\w*)\b", line): [ok, name]
MatchContract(line) ==
    LET k == SkipSpaces(line, 1)
        a == SkipSpaces(line, k + 1)
        e == SkipWords(line, a)
    IN  IF k <= Len(line) /\ line[k] = "kw" /\ a > k + 1 /\ e > a
        THEN [ok |-> TRUE, name |-> SubSeq(line, a, e - 1)]
        ELSE [ok |-> FALSE, name |-> <<>>]

\* the loop over src.splitlines()
RECURSIVE NamesOfLines(_)
NamesOfLines(lines) ==
    IF lines = <<>> THEN <<>>
    ELSE LET m == MatchContract(CutLineComment(Head(lines))) IN
         (IF m.ok THEN <<m.name>> ELSE <<>>) \o NamesOfLines(Tail(lines))

ScanNoBlockStrip(src) == NamesOfLines(SplitLines(src, <<>>))

\* _parse_contract_names_from_file, given the text of the file
_parse_contract_names_from_file(src) ==
    NamesOfLines(SplitLines(StripBlockComments(src, 1), <<>>))

ScanIdle == s_src = <<>> /\ s_names = <<>> /\ s_pc = "idle"

ScanInit == /\ s_src \in {Expand(x) : x \in SeqsUpTo(SolInputTokens, MaxSolLen)}
            /\ s_names = <<>> /\ s_pc = "call"

ScanFile ==
    /\ s_pc = "call"
    /\ s_names' = _parse_contract_names_from_file(s_src)
    /\ s_pc' = "done"
    /\ UNCHANGED s_src

(***************************************************************************)
(* The Standard-JSON builder.                                              *)
(*                                                                         *)
(* A path is [abs, comps]: whether it starts with `/`, and its components. *)
(* The filesystem maps absolute normalised paths to nodes.  File bytes are *)
(* sequences over letters, cr (\r) and lf (\n).                            *)
(***************************************************************************)
Cwd == <<"r">>          \* os.getcwd() is /r

RelPath(c) == [abs |-> FALSE, comps |-> c]
AbsPath(c) == [abs |-> TRUE, comps |-> c]

\* os.path.join(repo_root, path): an absolute path discards repo_root
PathJoin(root, path) ==
    IF path.abs THEN path ELSE AbsPath(root \o path.comps)

\* os.path.normpath on the components: `..` removes the component before it,
\* is dropped at the root and is kept at the start of a relative path
RECURSIVE NormComps(_, _, _)
NormComps(todo, done, abs) ==
    IF todo = <<>> THEN done
    ELSE IF Head(todo) = ".." THEN
        IF done # <<>> /\ done[Len(done)] # ".."
        THEN NormComps(Tail(todo), SubSeq(done, 1, Len(done) - 1), abs)
        ELSE IF abs THEN NormComps(Tail(todo), done, abs)
        ELSE NormComps(Tail(todo), Append(done, ".."), abs)
    ELSE NormComps(Tail(todo), Append(done, Head(todo)), abs)

NormPath(path) == [abs |-> path.abs, comps |-> NormComps(path.comps, <<>>, path.abs)]

NoNode == [t |-> "none", bytes |-> <<>>]
DirNode == [t |-> "dir", bytes |-> <<>>]
FileNode(b) == [t |-> "file", bytes |-> b]

\* the node the operating system reaches for a path, relative ones from Cwd
NodeAt(fs, path) ==
    LET a == NormPath(PathJoin(Cwd, path)).comps IN
    IF a \in DOMAIN fs THEN fs[a] ELSE NoNode

\* os.path.isfile
IsFile(fs, path) == NodeAt(fs, path).t = "file"

\* text-mode decoding (newline=None): \r\n and \r become \n
RECURSIVE UniversalNewlines(_)
UniversalNewlines(b) ==
    IF b = <<>> THEN <<>>
    ELSE IF Head(b) = "cr" THEN
        IF Len(b) >= 2 /\ b[2] = "lf"
        THEN <<"lf">> \o UniversalNewlines(Tail(Tail(b)))
        ELSE <<"lf">> \o UniversalNewlines(Tail(b))
    ELSE <<Head(b)>> \o UniversalNewlines(Tail(b))

\* open(fs_path, "r", encoding="utf-8").read(): [ok, text]
ReadText(fs, path) ==
    LET n == NodeAt(fs, path) IN
    IF n.t = "file" THEN [ok |-> TRUE, text |-> UniversalNewlines(n.bytes)]
    ELSE [ok |-> FALSE, text |-> <<>>]

\* lines 64-66: the path that is opened for a key of metadata.sources
ResolveSource(fs, path) ==
    LET fs_path == NormPath(PathJoin(Cwd, path)) IN
    IF ~IsFile(fs, fs_path) THEN NormPath(path) ELSE fs_path

Allow == {"optimizer", "evmVersion", "metadata", "libraries", "viaIR",
          "remappings", "outputSelection"}

DefaultOutputSelection == "{*:{*:[abi,evm.bytecode,evm.deployedBytecode]}}"

EmptyDict == [k \in {} |-> ""]

\* the settings copied whole
KeepAllSettings(raw) == raw

\* {k: v for k, v in raw_settings.items() if k in allow}
FilterSettings(raw) == [k \in (DOMAIN raw) \cap Allow |-> raw[k]]

\* dict.setdefault(key, value)
SetDefault(d, key, value) ==
    IF key \in DOMAIN d THEN d
    ELSE [k \in (DOMAIN d) \cup {key} |-> IF k = key THEN value ELSE d[k]]

\* lines 51-56.  A settings value is [t, d]; `.items()` exists on dict only.
BuildSettings(meta) ==
    IF meta.settings.t = "absent"
    THEN [ok |-> TRUE, d |-> SetDefault(EmptyDict, "outputSelection", DefaultOutputSelection)]
    ELSE IF meta.settings.t # "dict" THEN [ok |-> FALSE, d |-> EmptyDict]
    ELSE [ok |-> TRUE,
          d |-> SetDefault(FilterSettings(meta.settings.d), "outputSelection",
                           DefaultOutputSelection)]

\* lines 61-68: the loop over meta.get("sources", {}).keys(), in key order;
\* the first file that cannot be opened ends it
RECURSIVE BuildSources(_, _, _)
BuildSources(fs, keys, acc) ==
    IF keys = <<>> THEN [ok |-> TRUE, entries |-> acc]
    ELSE LET r == ReadText(fs, ResolveSource(fs, Head(keys))) IN
         IF ~r.ok THEN [ok |-> FALSE, entries |-> <<>>]
         ELSE BuildSources(fs, Tail(keys),
                           Append(acc, [key |-> Head(keys), content |-> r.text]))

BuildFail(why) ==
    [ok |-> FALSE, err |-> why, language |-> "", settings |-> EmptyDict, sources |-> <<>>]

\* _build_standard_input.  meta.sources is [t, keys].
_build_standard_input(meta, fs) ==
    LET st == BuildSettings(meta) IN
    IF ~st.ok THEN BuildFail("AttributeError")
    ELSE IF meta.sources.t \notin {"absent", "dict"} THEN BuildFail("AttributeError")
    ELSE LET src == BuildSources(fs, meta.sources.keys, <<>>) IN
         IF ~src.ok THEN BuildFail("OSError")
         ELSE [ok |-> TRUE, err |-> "",
               language |-> IF meta.language = "<absent>" THEN "Solidity" ELSE meta.language,
               settings |-> st.d, sources |-> src.entries]

(***************************************************************************)
(* Inputs of the builder.                                                  *)
(***************************************************************************)
SettingKeyUniverse == Allow \cup {"compilationTarget", "foo"}

AbsentSettings == [t |-> "absent", d |-> EmptyDict]
NullSettings == [t |-> "null", d |-> EmptyDict]
DictSettings(f) == [t |-> "dict", d |-> f]

\* every object over the key universe; outputSelection, when present, is an
\* object of its own or null
SettingsValues ==
    {AbsentSettings, NullSettings} \cup
    {DictSettings([k \in K |-> IF k = "outputSelection" THEN os ELSE "{..}"]) :
        K \in SUBSET SettingKeyUniverse, os \in {"{custom}", "null"}}

AbsentSources == [t |-> "absent", keys |-> <<>>]
NullSources == [t |-> "null", keys |-> <<>>]
DictSources(k) == [t |-> "dict", keys |-> k]

SourcePaths ==
    {RelPath(<<"s">>), RelPath(<<"..", "s">>), RelPath(<<"lib", "..", "s">>),
     RelPath(<<"lib">>), RelPath(<<"m">>), AbsPath(<<"r", "s">>), AbsPath(<<"s">>)}

\* the keys of an object are distinct
DistinctSeqs(S, n) ==
    {q \in SeqsUpTo(S, n) : \A i, j \in 1..Len(q) : i # j => q[i] # q[j]}

SourcesValues ==
    {AbsentSources, NullSources} \cup {DictSources(k) : k \in DistinctSeqs(SourcePaths, MaxSources)}

FileBytes == {<<"a">>, <<"b", "cr", "lf", "c">>, <<"c", "lf", "cr">>}

FsDomain == {<<"r", "s">>, <<"s">>, <<"r", "lib">>}

FileSystems ==
    {[x \in FsDomain |-> IF x = <<"r", "s">> THEN a ELSE IF x = <<"s">> THEN b ELSE c] :
        a \in {NoNode} \cup {FileNode(y) : y \in FileBytes},
        b \in {NoNode} \cup {FileNode(y) : y \in FileBytes},
        c \in {NoNode, DirNode}}

EmptyFs == [x \in FsDomain |-> NoNode]

Languages == {"<absent>", "Yul"}

BuildMeta(st, lang, src) == [settings |-> st, language |-> lang, sources |-> src]

NoBuild == [ok |-> FALSE, err |-> "none", language |-> "", settings |-> EmptyDict,
            sources |-> <<>>]

BuildIdle == /\ b_meta = BuildMeta(AbsentSettings, "<absent>", AbsentSources)
             /\ b_fs = EmptyFs /\ b_res = NoBuild /\ b_pc = "idle"

BuildInit ==
    /\ \/ /\ b_meta \in {BuildMeta(st, l, AbsentSources) : st \in SettingsValues, l \in Languages}
          /\ b_fs = EmptyFs
       \/ /\ b_meta \in {BuildMeta(st, "<absent>", src) :
                            st \in {AbsentSettings, NullSettings}, src \in SourcesValues}
          /\ b_fs \in FileSystems
    /\ b_res = NoBuild
    /\ b_pc = "call"

Build ==
    /\ b_pc = "call"
    /\ b_res' = _build_standard_input(b_meta, b_fs)
    /\ b_pc' = "done"
    /\ UNCHANGED <<b_meta, b_fs>>

(***************************************************************************)
(* Output paths and the disk.  A path is a sequence of path tokens; the    *)
(* tokens ending in `/` are directories.  The disk maps a path to the      *)
(* file last written there.                                                *)
(***************************************************************************)
StdSuffix == ".standard-input.json"
InfoSuffix == ".verification-info.json"

DirTokens == {"/tmp/", "/r/", "etherscan/", "out/"}

\* out_path.replace(".standard-input.json", ".verification-info.json")
RECURSIVE ReplaceSuffix(_)
ReplaceSuffix(path) ==
    IF path = <<>> THEN <<>>
    ELSE <<IF Head(path) = StdSuffix THEN InfoSuffix ELSE Head(path)>>
            \o ReplaceSuffix(Tail(path))

\* os.path.dirname(path) == "", on which os.makedirs raises FileNotFoundError
NoDirname(path) == \A i \in 1..Len(path) : path[i] \notin DirTokens

PutFile(disk, path, file) ==
    [x \in (DOMAIN disk) \cup {path} |-> IF x = path THEN file ELSE disk[x]]

\* _write_json: [ok, disk]
_write_json(disk, path, file) ==
    IF NoDirname(path) THEN [ok |-> FALSE, disk |-> disk]
    ELSE [ok |-> TRUE, disk |-> PutFile(disk, path, file)]

\* The files.  `contract` of a Standard-JSON file is not part of its content:
\* it records which target wrote it.
StdFile(fq, std) ==
    [kind |-> "std", contract |-> fq, solc |-> "", language |-> std.language,
     settings |-> std.settings, sources |-> std.sources]

InfoFile(fq, solc, meta) ==
    [kind |-> "info", contract |-> fq, solc |-> solc, language |-> "",
     settings |-> meta.settings.d, sources |-> <<>>]

\* `x.get(key, {}) or {}` followed by `.get`: raises on a truthy value that is
\* no dict
GetOnValueOk(d, key) == key \notin DOMAIN d \/ d[key] # "true"

\* _print_verification_hints: whether it returns (TRUE) or raises (FALSE)
_print_verification_hints(meta) ==
    /\ _extract_solc_version(meta).ok
    /\ GetOnValueOk(meta.settings.d, "optimizer")
    /\ GetOnValueOk(meta.settings.d, "metadata")

(***************************************************************************)
(* Metadata documents the acquirer can deliver, and its outcomes.  The     *)
(* token obj (or eobj) of the acquirer's text stands for the document.     *)
(***************************************************************************)
Doc(st, src, comp, cver) ==
    [settings |-> st, language |-> "<absent>", sources |-> src, compiler |-> comp,
     cversion |-> cver, solcVersion |-> Absent, solc |-> Absent, version |-> Absent]

GoodSettings ==
    DictSettings([k \in {"optimizer", "compilationTarget"} |-> "{..}"])

DocOk == Doc(GoodSettings, DictSources(<<RelPath(<<"s">>)>>), NonEmptyDict, PStr("0.8.19"))
DocMissingSource ==
    Doc(GoodSettings, DictSources(<<RelPath(<<"s">>), RelPath(<<"m">>)>>), NonEmptyDict,
        PStr("0.8.19"))
DocCompilerString == Doc(GoodSettings, DictSources(<<RelPath(<<"s">>)>>), PStr("0.8.19"), Absent)
DocEmpty == Doc(AbsentSettings, AbsentSources, Absent, Absent)

ProjectFs ==
    [x \in FsDomain |-> IF x = <<"r", "s">> THEN FileNode(<<"a">>) ELSE NoNode]

AcquirerOutcomes ==
    {[ok |-> FALSE, out |-> <<>>, doc |-> DocEmpty],
     [ok |-> TRUE, out |-> <<"d", "sp", "d">>, doc |-> DocEmpty],
     [ok |-> TRUE, out |-> <<"q", "lst", "q">>, doc |-> DocEmpty],
     [ok |-> TRUE, out |-> <<"obj", "sp">>, doc |-> DocOk],
     [ok |-> TRUE, out |-> <<"q", "eobj", "q">>, doc |-> DocOk],
     [ok |-> TRUE, out |-> <<"obj">>, doc |-> DocMissingSource],
     [ok |-> TRUE, out |-> <<"obj">>, doc |-> DocCompilerString]}

GenResult(ok, stage, err, disk) == [ok |-> ok, stage |-> stage, err |-> err, disk |-> disk]

\* lines 127-140 of _generate_one: the two writes, the hints between them
WriteArtifacts(fq, out_path, meta, std, disk) ==
    LET w1 == _write_json(disk, out_path, StdFile(fq, std)) IN
    IF ~w1.ok THEN GenResult(FALSE, "write", "FileNotFoundError", disk)
    ELSE IF ~_print_verification_hints(meta)
    THEN GenResult(FALSE, "hints", "AttributeError", w1.disk)
    ELSE LET info_path == ReplaceSuffix(out_path)
             w2 == _write_json(w1.disk, info_path,
                               InfoFile(fq, _extract_solc_version(meta).v, meta))
         IN IF ~w2.ok THEN GenResult(FALSE, "write", "FileNotFoundError", w1.disk)
            ELSE GenResult(TRUE, "done", "", w2.disk)

\* a variant that opens the output file before the sources are read
GenerateOneEagerWrite(fq, out_path, acq, disk) ==
    IF ~acq.ok THEN GenResult(FALSE, "acquire", "CalledProcessError", disk)
    ELSE LET parsed == _parse_metadata(_run_forge_inspect(acq.out)) IN
    IF ~parsed.ok THEN GenResult(FALSE, "parse", "ValueError", disk)
    ELSE IF parsed.t # "dict" THEN GenResult(FALSE, "build", "AttributeError", disk)
    ELSE LET meta == IF parsed.v = <<>> THEN DocEmpty ELSE acq.doc
             std == _build_standard_input(meta, ProjectFs)
             early == _write_json(disk, out_path, StdFile(fq, std))
         IN IF ~std.ok THEN GenResult(FALSE, "build", std.err, early.disk)
            ELSE WriteArtifacts(fq, out_path, meta, std, disk)

\* _generate_one, given what the acquirer does for fq.  A parsed value that is
\* no dict has no `.get`: the builder raises AttributeError on its first line.
_generate_one(fq, out_path, acq, disk) ==
    IF ~acq.ok THEN GenResult(FALSE, "acquire", "CalledProcessError", disk)
    ELSE LET parsed == _parse_metadata(_run_forge_inspect(acq.out)) IN
    IF ~parsed.ok THEN GenResult(FALSE, "parse", "ValueError", disk)
    ELSE IF parsed.t # "dict" THEN GenResult(FALSE, "build", "AttributeError", disk)
    ELSE LET meta == IF parsed.v = <<>> THEN DocEmpty ELSE acq.doc
             std == _build_standard_input(meta, ProjectFs)
         IN IF ~std.ok THEN GenResult(FALSE, "build", std.err, disk)
            ELSE WriteArtifacts(fq, out_path, meta, std, disk)

(***************************************************************************)
(* Batch discovery.  Identifiers and file names are sequences of name      *)
(* tokens.  No two tokens that can follow the same prefix begin with the   *)
(* same character, so comparing identifiers token by token on the first    *)
(* character is Python's comparison of the strings.                        *)
(***************************************************************************)
FirstChar(tok) ==
    CASE tok = ".sol" -> 46
      [] tok = ":" -> 58
      [] tok = "A" -> 65
      [] tok = "B" -> 66
      [] tok = "IdeationMarketDiamond.sol" -> 73
      [] tok = "id" -> 88       \* X
      [] tok = "kw" -> 99       \* contract
      [] tok = "d/" -> 100
      [] tok = "facets/" -> 102
      [] tok = "itf" -> 105     \* interface
      [] tok = "src/" -> 115

\* a < b on str
RECURSIVE LexLess(_, _)
LexLess(a, b) ==
    IF b = <<>> THEN FALSE
    ELSE IF a = <<>> THEN TRUE
    ELSE IF FirstChar(Head(a)) < FirstChar(Head(b)) THEN TRUE
    ELSE IF FirstChar(Head(a)) > FirstChar(Head(b)) THEN FALSE
    ELSE LexLess(Tail(a), Tail(b))

Target(fq, out_path) == [fq |-> fq, out |-> out_path]

\* lines 152-156 and 166-169: one target per name found in a file
RECURSIVE TargetsOfNames(_, _, _)
TargetsOfNames(rel, names, out_dir) ==
    IF names = <<>> THEN <<>>
    ELSE <<Target(rel \o <<":">> \o Head(names), out_dir \o Head(names) \o <<StdSuffix>>)>>
            \o TargetsOfNames(rel, Tail(names), out_dir)

DiamondRel == <<"src/", "IdeationMarketDiamond.sol">>

\* lines 151-156
DiamondTargets(tree, out_dir) ==
    IF tree.diamond.exists
    THEN TargetsOfNames(DiamondRel, _parse_contract_names_from_file(tree.diamond.text), out_dir)
    ELSE <<>>

\* lines 160-169: the files in the order os.walk yields them
RECURSIVE FacetTargets(_, _)
FacetTargets(files, out_dir) ==
    IF files = <<>> THEN <<>>
    ELSE LET f == Head(files) IN
         (IF f.ext # ".sol" THEN <<>>
          ELSE TargetsOfNames(<<"src/", "facets/">> \o f.dir \o <<f.stem, f.ext>>,
                              _parse_contract_names_from_file(f.text), out_dir))
         \o FacetTargets(Tail(files), out_dir)

\* list.sort is stable: an element goes after those that are not greater
RECURSIVE InsertByFq(_, _)
InsertByFq(t, sorted) ==
    IF sorted = <<>> THEN <<t>>
    ELSE IF LexLess(t.fq, Head(sorted).fq) THEN <<t>> \o sorted
    ELSE <<Head(sorted)>> \o InsertByFq(t, Tail(sorted))

RECURSIVE SortInto(_, _)
SortInto(todo, sorted) ==
    IF todo = <<>> THEN sorted ELSE SortInto(Tail(todo), InsertByFq(Head(todo), sorted))

\* the list left as discovered
Unsorted(targets) == targets

\* targets.sort(key=lambda t: t[0])
SortTargets(targets) == SortInto(targets, <<>>)

\* lines 148-175 of _generate_all
DiscoverTargets(tree, out_dir) ==
    SortTargets(DiamondTargets(tree, out_dir) \o FacetTargets(tree.facets, out_dir))

(***************************************************************************)
(* Command lines and project trees.                                        *)
(***************************************************************************)
NotGiven == [given |-> FALSE, path |-> <<>>]
Given(pth) == [given |-> TRUE, path |-> pth]

SingleFq == <<"src/", "facets/", "A", ".sol", ":", "id">>

Argv(mode, fq, out) == [mode |-> mode, fq |-> fq, out |-> out]

SingleArgvs ==
    {Argv("single", SingleFq, o) :
        o \in {NotGiven, Given(<<"out/", "id", StdSuffix>>), Given(<<"out/", "id", ".json">>),
               Given(<<"id", StdSuffix>>)}}

AllArgvs == {Argv("all", <<>>, o) : o \in {NotGiven, Given(<<"out/">>)}}

OtherArgvs == {Argv("none", <<>>, NotGiven), Argv("help", <<>>, NotGiven)}

SolSamples == {Expand(<<"cx">>), Expand(<<"ix">>), Expand(<<"cx", "nl", "cx", "id">>)}

FacetNames ==
    {[dir |-> <<>>, stem |-> "A", ext |-> ".sol"], [dir |-> <<>>, stem |-> "B", ext |-> ".sol"],
     [dir |-> <<>>, stem |-> "R", ext |-> ".txt"], [dir |-> <<"d/">>, stem |-> "A", ext |-> ".sol"]}

FacetFiles ==
    {[dir |-> n.dir, stem |-> n.stem, ext |-> n.ext, text |-> x] : n \in FacetNames, x \in SolSamples}

NameOf(f) == [dir |-> f.dir, stem |-> f.stem, ext |-> f.ext]

\* os.walk is top-down: the files of src/facets itself come before those of
\* its subdirectories; within a directory the order is the filesystem's
WalkOrders ==
    {w \in SeqsUpTo(FacetFiles, MaxFacetFiles) :
        /\ \A i, j \in 1..Len(w) : i # j => NameOf(w[i]) # NameOf(w[j])
        /\ \A i, j \in 1..Len(w) : (i < j /\ w[j].dir = <<>>) => w[i].dir = <<>>}

NoDiamond == [exists |-> FALSE, text |-> <<>>]

Trees ==
    {[diamond |-> dm, facets |-> w] :
        dm \in {NoDiamond} \cup {[exists |-> TRUE, text |-> x] : x \in SolSamples},
        w \in WalkOrders}

EmptyTree == [diamond |-> NoDiamond, facets |-> <<>>]

NoFail == [stage |-> "none", err |-> "", idx |-> 0, disk |-> <<>>]
Failure(stage, err, idx, disk) == [stage |-> stage, err |-> err, idx |-> idx, disk |-> disk]

GenIdle ==
    /\ g_pc = "idle" /\ g_argv = Argv("none", <<>>, NotGiven) /\ g_tree = EmptyTree
    /\ g_targets = <<>> /\ g_idx = 0 /\ g_disk = <<>> /\ g_log = <<>> /\ g_fail = NoFail
    /\ g_prev = <<>>

GenInit ==
    /\ g_pc = "main"
    /\ \/ g_argv \in SingleArgvs \cup OtherArgvs /\ g_tree = EmptyTree
       \/ g_argv \in AllArgvs /\ g_tree \in Trees
    /\ g_targets = <<>> /\ g_idx = 0 /\ g_disk = <<>> /\ g_log = <<>> /\ g_fail = NoFail
    /\ g_prev = <<>>

\* main, no argument or --help: the usage text, nothing generated
MainUsage ==
    /\ g_pc = "main"
    /\ g_argv.mode \in {"none", "help"}
    /\ g_pc' = IF g_argv.mode = "none" THEN "exit2" ELSE "done"
    /\ UNCHANGED <<g_argv, g_tree, g_targets, g_idx, g_disk, g_log, g_fail, g_prev>>

\* main, lines 194-196
MainSingle ==
    /\ g_pc = "main"
    /\ g_argv.mode = "single"
    /\ g_targets' = <<Target(g_argv.fq,
                             IF g_argv.out.given THEN g_argv.out.path
                             ELSE <<"/tmp/", "etherscan-input", ".json">>)>>
    /\ g_idx' = 1
    /\ g_pc' = "gen"
    /\ UNCHANGED <<g_argv, g_tree, g_disk, g_log, g_fail, g_prev>>

\* main, lines 189-191, and _generate_all up to the loop
MainAll ==
    /\ g_pc = "main"
    /\ g_argv.mode = "all"
    /\ LET out_dir == IF g_argv.out.given THEN g_argv.out.path ELSE <<"/r/", "etherscan/">>
           targets == DiscoverTargets(g_tree, out_dir)
       IN /\ g_targets' = targets
          /\ IF targets = <<>>
             THEN /\ g_pc' = "failed"
                  /\ g_fail' = Failure("discover", "SystemExit", 0, g_disk)
                  /\ g_idx' = 0
             ELSE /\ g_pc' = "gen"
                  /\ g_fail' = g_fail
                  /\ g_idx' = 1
    /\ UNCHANGED <<g_argv, g_tree, g_disk, g_log, g_prev>>

\* lines 176-177: the loop goes on after a return; an exception leaves it
\* and ends the program
LoopStep(r) ==
    IF r.ok
    THEN /\ g_idx' = g_idx + 1
         /\ g_pc' = IF g_idx = Len(g_targets) THEN "done" ELSE "gen"
         /\ g_fail' = g_fail
    ELSE /\ g_idx' = g_idx
         /\ g_pc' = "failed"
         /\ g_fail' = Failure(r.stage, r.err, g_idx, r.disk)

\* one call of _generate_one, from main or from the loop of _generate_all
GenerateOne ==
    /\ g_pc = "gen"
    /\ \E acq \in AcquirerOutcomes :
         LET t == g_targets[g_idx]
             r == _generate_one(t.fq, t.out, acq, g_disk)
         IN /\ g_disk' = r.disk
            /\ g_prev' = g_disk
            /\ g_log' = Append(g_log, t.fq)
            /\ LoopStep(r)
    /\ UNCHANGED <<g_argv, g_tree, g_targets>>

(***************************************************************************)
(* Specifications.                                                         *)
(***************************************************************************)
Init == ParseIdle /\ VersionIdle /\ BuildIdle /\ ScanIdle /\ GenInit
Next == \/ MainUsage /\ UNCHANGED <<pvars, vvars, bvars, svars>>
        \/ MainSingle /\ UNCHANGED <<pvars, vvars, bvars, svars>>
        \/ MainAll /\ UNCHANGED <<pvars, vvars, bvars, svars>>
        \/ GenerateOne /\ UNCHANGED <<pvars, vvars, bvars, svars>>
Spec == Init /\ [][Next]_vars

InitParse == ParseInit /\ VersionIdle /\ BuildIdle /\ ScanIdle /\ GenIdle
NextParse == \/ Acquire /\ UNCHANGED <<vvars, bvars, svars, gvars>>
             \/ Parse /\ UNCHANGED <<vvars, bvars, svars, gvars>>
SpecParse == InitParse /\ [][NextParse]_vars

InitVersion == ParseIdle /\ VersionInit /\ BuildIdle /\ ScanIdle /\ GenIdle
NextVersion == ExtractVersion /\ UNCHANGED <<pvars, bvars, svars, gvars>>
SpecVersion == InitVersion /\ [][NextVersion]_vars

InitBuild == ParseIdle /\ VersionIdle /\ BuildInit /\ ScanIdle /\ GenIdle
NextBuild == Build /\ UNCHANGED <<pvars, vvars, svars, gvars>>
SpecBuild == InitBuild /\ [][NextBuild]_vars

InitScan == ParseIdle /\ VersionIdle /\ BuildIdle /\ ScanInit /\ GenIdle
NextScan == ScanFile /\ UNCHANGED <<pvars, vvars, bvars, gvars>>
SpecScan == InitScan /\ [][NextScan]_vars

(***************************************************************************)
(* Properties.                                                             *)
(***************************************************************************)
NoFile == [kind |-> "none", contract |-> <<>>, solc |-> "", language |-> "",
           settings |-> EmptyDict, sources |-> <<>>]
FileAt(disk, path) == IF path \in DOMAIN disk THEN disk[path] ELSE NoFile

\* C1: when _generate_one fails at metadata acquisition, at metadata parsing
\* or in the builder (a key of metadata.sources that resolves to no file), it
\* has written nothing: the file at out_path and the sidecar are as they were
\* before the call, and so is the rest of the disk.
C1_NoWriteOnEarlyFailure ==
    (g_pc = "failed" /\ g_fail.stage \in {"acquire", "parse", "build"}) =>
        LET t == g_targets[g_fail.idx] IN
        /\ FileAt(g_disk, t.out) = FileAt(g_prev, t.out)
        /\ FileAt(g_disk, ReplaceSuffix(t.out)) = FileAt(g_prev, ReplaceSuffix(t.out))
        /\ g_disk = g_prev

\* a batch whose second or later target lists a source file that is missing
C1_Witness ==
    /\ g_pc = "failed" /\ g_fail.stage = "build" /\ g_fail.err = "OSError"
    /\ g_fail.idx > 1 /\ g_prev # <<>>

\* C2: after a successful _generate_one, for every output path (given, the
\* default /tmp/etherscan-input.json, or derived in batch mode) out_path holds
\* the Standard-JSON document and the verification info is in another file.
C2_SidecarBesideStandardJson ==
    (g_pc \in {"gen", "done"} /\ g_idx > 1) =>
        LET t == g_targets[g_idx - 1] IN
        /\ FileAt(g_disk, t.out).kind = "std"
        /\ ReplaceSuffix(t.out) # t.out
        /\ FileAt(g_disk, ReplaceSuffix(t.out)).kind = "info"

\* C3: the settings of a built Standard-JSON input have only whitelisted keys
\* and always outputSelection: the value of metadata.settings when it has
\* one, the default otherwise.
C3_SettingsWhitelisted ==
    (b_pc = "done" /\ b_res.ok) =>
        /\ DOMAIN b_res.settings \subseteq
              {"optimizer", "evmVersion", "metadata", "libraries", "viaIR", "remappings",
               "outputSelection"}
        /\ "outputSelection" \in DOMAIN b_res.settings
        /\ b_res.settings["outputSelection"] =
              IF b_meta.settings.t = "dict" /\ "outputSelection" \in DOMAIN b_meta.settings.d
              THEN b_meta.settings.d["outputSelection"]
              ELSE "{*:{*:[abi,evm.bytecode,evm.deployedBytecode]}}"

\* settings with unknown keys and no outputSelection have been built
C3_Witness ==
    /\ b_pc = "done" /\ b_res.ok /\ b_meta.settings.t = "dict"
    /\ {"foo", "compilationTarget", "viaIR"} \subseteq DOMAIN b_meta.settings.d
    /\ "outputSelection" \notin DOMAIN b_meta.settings.d

\* the targets in the order the walk found them
DiscoveryOrder ==
    LET out_dir == IF g_argv.out.given THEN g_argv.out.path ELSE <<"/r/", "etherscan/">>
    IN DiamondTargets(g_tree, out_dir) \o FacetTargets(g_tree.facets, out_dir)

\* C4: in batch mode the targets are generated one after another in
\* ascending order of their identifier: when the generation of b has started,
\* the generation of every discovered a < b has already been run.
C4_SortedOrder ==
    g_argv.mode = "all" =>
        \A k \in 1..Len(g_log) : \A i \in 1..Len(DiscoveryOrder) :
            LexLess(DiscoveryOrder[i].fq, g_log[k]) =>
                \E h \in 1..(k - 1) : g_log[h] = DiscoveryOrder[i].fq

\* a finished batch whose walk did not find the targets in sorted order
C4_Witness ==
    /\ g_argv.mode = "all" /\ g_pc = "done" /\ Len(g_log) >= 3
    /\ \E i, j \in 1..Len(DiscoveryOrder) :
          i < j /\ LexLess(DiscoveryOrder[j].fq, DiscoveryOrder[i].fq)

\* the file a key of metadata.sources stands for: the path under the working
\* directory when a file is there, else the path on its own
ChosenNode(fs, path) ==
    IF NodeAt(fs, NormPath(PathJoin(Cwd, path))).t = "file"
    THEN NodeAt(fs, NormPath(PathJoin(Cwd, path)))
    ELSE NodeAt(fs, NormPath(path))

\* C5: when the builder succeeds, the keys of the produced sources are the
\* keys of metadata.sources, and the content of each is the full text of the
\* file the resolution order chooses: exactly what the file holds.
C5_SourcesInlined ==
    (b_pc = "done" /\ b_res.ok /\ b_meta.sources.t = "dict") =>
        /\ Len(b_res.sources) = Len(b_meta.sources.keys)
        /\ \A i \in 1..Len(b_res.sources) :
              /\ b_res.sources[i].key = b_meta.sources.keys[i]
              /\ ChosenNode(b_fs, b_meta.sources.keys[i]).t = "file"
              /\ b_res.sources[i].content =
                    ChosenNode(b_fs, b_meta.sources.keys[i]).bytes

\* C6: _extract_solc_version never fails and returns compiler.version when
\* that is a non-empty string, else the first non-empty string among
\* solcVersion, solc, version, else "<unknown>".
C6_VersionNeverFails ==
    v_pc = "done" =>
        /\ v_res.ok
        /\ v_res.v =
              IF v_meta.compiler.t = "dict" /\ v_meta.cversion.t = "str" /\ v_meta.cversion.v # ""
              THEN v_meta.cversion.v
              ELSE IF v_meta.solcVersion.t = "str" /\ v_meta.solcVersion.v # ""
              THEN v_meta.solcVersion.v
              ELSE IF v_meta.solc.t = "str" /\ v_meta.solc.v # "" THEN v_meta.solc.v
              ELSE IF v_meta.version.t = "str" /\ v_meta.version.v # "" THEN v_meta.version.v
              ELSE "<unknown>"

\* C7: _parse_metadata returns a mapping or fails; a parsed value that is no
\* mapping is rejected.
C7_MappingOrError ==
    p_pc = "done" => (~p_res.ok \/ p_res.t = "dict")

\* a line begins, after optional spaces, with `contract`, spaces and an
\* identifier, which is nm
BeginsWithContract(line, nm) ==
    \E k \in 1..Len(line) : \E a \in (k + 2)..Len(line) :
        /\ \A i \in 1..(k - 1) : line[i] = "sp"
        /\ line[k] = "kw"
        /\ \A i \in (k + 1)..(a - 1) : line[i] = "sp"
        /\ nm # <<>>
        /\ a + Len(nm) - 1 <= Len(line)
        /\ \A i \in 1..Len(nm) : line[a + i - 1] = nm[i] /\ nm[i] \in WordTokens
        /\ (a + Len(nm) <= Len(line) => line[a + Len(nm)] \notin WordTokens)

IsDeclaration(line) ==
    \E b \in 1..Len(line) : \E e \in b..Len(line) : BeginsWithContract(line, SubSeq(line, b, e))

\* the lines of the file once block comments are removed and line comments cut
CleanLines(src) ==
    LET ls == SplitLines(StripBlockComments(src, 1), <<>>)
    IN [i \in 1..Len(ls) |-> CutLineComment(ls[i])]

NoCloseIn(body) == \A i \in 1..(Len(body) - 1) : ~(body[i] = "st" /\ body[i + 1] = "sl")

\* C8: the scan returns, in file order, exactly the identifiers of the cleaned
\* lines that begin with `contract <identifier>`; a file with no `contract`
\* keyword yields nothing, and neither does a declaration inside a block
\* comment or after `//`.
C8_ContractNames ==
    s_pc = "done" =>
        /\ \E f \in [1..Len(s_names) -> 1..Len(CleanLines(s_src))] :
              /\ \A i, j \in 1..Len(s_names) : i < j => f[i] < f[j]
              /\ \A i \in 1..Len(s_names) : BeginsWithContract(CleanLines(s_src)[f[i]], s_names[i])
              /\ \A n \in 1..Len(CleanLines(s_src)) :
                    IsDeclaration(CleanLines(s_src)[n]) => \E i \in 1..Len(s_names) : f[i] = n
        /\ ((\A i \in 1..Len(s_src) : s_src[i] # "kw") => s_names = <<>>)
        /\ ((/\ Len(s_src) >= 4
             /\ SubSeq(s_src, 1, 2) = <<"sl", "st">>
             /\ SubSeq(s_src, Len(s_src) - 1, Len(s_src)) = <<"st", "sl">>
             /\ NoCloseIn(SubSeq(s_src, 3, Len(s_src) - 2))) => s_names = <<>>)
        /\ ((/\ \A i \in 1..Len(s_src) : s_src[i] # "st"
             /\ \A i \in 1..Len(s_src) : s_src[i] = "kw" =>
                   \E j \in 1..(i - 2) :
                       /\ s_src[j] = "sl" /\ s_src[j + 1] = "sl"
                       /\ \A h \in j..i : s_src[h] # "nl") => s_names = <<>>)

\* `contract X` inside a block comment has been scanned
C8_Witness ==
    /\ s_pc = "done"
    /\ s_src = <<"sl", "st", "kw", "sp", "id", "st", "sl">>
    /\ s_names = <<>>

\* C9: batch mode is fail-fast: once the target at position i has failed, the
\* program has ended, the targets run are exactly those up to i, and every
\* file written for the targets before i is on disk with the content it had
\* when the generation of target i began.
C9_FailFast ==
    (g_argv.mode = "all" /\ g_fail.idx > 0) =>
        /\ g_pc = "failed"
        /\ g_idx = g_fail.idx
        /\ Len(g_log) = g_fail.idx
        /\ \A k \in 1..Len(g_log) : g_log[k] = g_targets[k].fq
        /\ \A x \in DOMAIN g_prev : FileAt(g_disk, x) = g_prev[x]

\* C10: in batch mode distinct targets have distinct output paths and distinct
\* sidecar paths, and after a successful batch the artifact of every target
\* is on disk as that target wrote it.
C10_NoOverwrite ==
    (g_argv.mode = "all" /\ g_pc = "done") =>
        /\ \A i, j \in 1..Len(g_targets) :
              g_targets[i].fq # g_targets[j].fq =>
                  /\ g_targets[i].out # g_targets[j].out
                  /\ ReplaceSuffix(g_targets[i].out) # ReplaceSuffix(g_targets[j].out)
        /\ \A i \in 1..Len(g_targets) :
              /\ FileAt(g_disk, g_targets[i].out).contract = g_targets[i].fq
              /\ FileAt(g_disk, ReplaceSuffix(g_targets[i].out)).contract = g_targets[i].fq

====
